---- MODULE Spec2Model ----
(***************************************************************************)
(* Alert management controller of cluster-monitoring-operator:             *)
(* GetAlertingRule / CreateAlertingRule over PrometheusRule documents kept  *)
(* in a resource store, with the ownership check, the owned-group lookup    *)
(* and savePrometheusRule.                                                  *)
(***************************************************************************)
EXTENDS Naturals, Sequences, FiniteSets, TLC

VARIABLES store, resp, created, poll, tasks

vars == <<store, resp, created, poll, tasks>>

----------------------------------------------------------------------------
(* Program constants *)

ResourceOwnerLabelKey == "cmo.openshift.io/owner"
ResourceOwnerLabelValue == "alert-management"
PrometheusRuleGroupName == "cmo-alert-management"

----------------------------------------------------------------------------
(* Bounds and input sets *)

\* largest number of rules a document holds, all groups together
MaxRules == 2

\* largest number of writes of another client of the store in one behaviour
MaxForeignWrites == 1

Namespaces == {"ns"}
DocNames == {"pr1"}
RuleNames == {"A", "B"}
Severities == {"critical", "warning"}

Keys == Namespaces \X DocNames

\* monv1.Rule: the alert name, the label map and the expression
MkRule(a, s, e) == [alert |-> a, labels |-> [k \in {"severity"} |-> s], expr |-> e]

Rules ==
  { MkRule("A", "critical", "e1"), MkRule("A", "critical", "e2"),
    MkRule("A", "warning", "e1"), MkRule("B", "critical", "e1") }

\* AlertingRuleId
Ids ==
  [namespace : Namespaces, prometheusRule : DocNames,
   ruleName : RuleNames, severity : Severities]

\* label maps a document may carry: none, the exact marker, the marker key
\* with another value
LabelSets ==
  { <<>>,
    [k \in {ResourceOwnerLabelKey} |-> ResourceOwnerLabelValue],
    [k \in {ResourceOwnerLabelKey} |-> "someone-else"] }

\* group-name layouts of the documents the store starts with
GroupLayouts ==
  { <<>>,
    <<PrometheusRuleGroupName>>,
    <<"test-group">>,
    <<"test-group", PrometheusRuleGroupName>>,
    <<PrometheusRuleGroupName, "test-group">>,
    <<PrometheusRuleGroupName, PrometheusRuleGroupName>> }

\* answers of the store to a get: the document (or not-found), a failure
\* other than not-found, or a nil document without error when absent
GetModes == {"ok", "fail", "nil"}

\* nil values
NoDoc == [nil |-> TRUE]
NoRule == [nil |-> TRUE]
Nil == <<>>

RECURSIVE SeqsUpTo(_, _)
SeqsUpTo(S, n) ==
  IF n = 0 THEN { <<>> }
  ELSE LET shorter == SeqsUpTo(S, n - 1)
       IN shorter \cup { Append(s, x) : s \in { t \in shorter : Len(t) = n - 1 }, x \in S }

RECURSIVE SumLen(_, _)
SumLen(f, n) == IF n = 0 THEN 0 ELSE Len(f[n]) + SumLen(f, n - 1)

RuleSeqs == SeqsUpTo(Rules, MaxRules)

\* rule lists handed to savePrometheusRule directly: none, or one rule
SaveRuleSeqs == { <<>> } \cup { <<r>> : r \in Rules }

GroupSeqs(layout) ==
  { [i \in 1..Len(layout) |-> [name |-> layout[i], rules |-> f[i]]] :
      f \in { g \in [1..Len(layout) -> RuleSeqs] : SumLen(g, Len(layout)) <= MaxRules } }

\* monv1.PrometheusRule documents of one (namespace, name)
DocsOf(key) ==
  { [namespace |-> key[1], name |-> key[2], labels |-> l, groups |-> gs] :
      l \in LabelSets, gs \in UNION { GroupSeqs(layout) : layout \in GroupLayouts } }

RECURSIVE TotalRules(_)
TotalRules(groups) ==
  IF groups = <<>> THEN 0 ELSE Len(Head(groups).rules) + TotalRules(Tail(groups))

----------------------------------------------------------------------------
(* The resource store (Client interface) *)

Lookup(st, ns, name) == IF <<ns, name>> \in DOMAIN st THEN st[<<ns, name>>] ELSE NoDoc

\* Client.GetPrometheusRule
StoreGet(st, ns, name, mode) ==
  IF mode = "fail" THEN [pr |-> NoDoc, err |-> "error"]
  ELSE IF Lookup(st, ns, name) = NoDoc
       THEN IF mode = "nil" THEN [pr |-> NoDoc, err |-> "nil"]
            ELSE [pr |-> NoDoc, err |-> "notfound"]
       ELSE [pr |-> Lookup(st, ns, name), err |-> "nil"]

\* Client.CreateOrUpdatePrometheusRule
StoreCreateOrUpdate(st, pr, ok) ==
  IF ok /\ <<pr.namespace, pr.name>> \in DOMAIN st
  THEN [st EXCEPT ![<<pr.namespace, pr.name>>] = pr]
  ELSE st

\* Client.DeletePrometheusRuleByNamespaceAndName
StoreDelete(st, ns, name, ok) ==
  IF ok /\ <<ns, name>> \in DOMAIN st
  THEN [st EXCEPT ![<<ns, name>>] = NoDoc]
  ELSE st

\* what a call log entry says the store answered to a get
GetAnswer(r) == IF r.err = "nil" /\ r.pr # NoDoc THEN "doc" ELSE
                IF r.err = "nil" THEN "nildoc" ELSE r.err

GetCall(r) == [op |-> "get", ret |-> GetAnswer(r)]
WriteCall(pr, ok) == [op |-> "createOrUpdate", ret |-> IF ok THEN "ok" ELSE "error", arg |-> pr]
DeleteCall(ok) == [op |-> "delete", ret |-> IF ok THEN "ok" ELSE "error"]

----------------------------------------------------------------------------
(* Error values: the formatted messages, as the sequence of their parts *)

ErrDocNotFound(id) ==
  <<"PrometheusRule ", id.namespace, "/", id.prometheusRule, " not found">>
ErrUnexpectedGet(id) ==
  <<"unexpected error getting PrometheusRule ", id.namespace, "/", id.prometheusRule>>
ErrRuleNotFound(id) ==
  <<"alerting rule ", id.severity, "/", id.ruleName, " not found in PrometheusRule ",
    id.namespace, "/", id.prometheusRule>>
ErrNotManaged(id) ==
  <<"PrometheusRule ", id.namespace, "/", id.prometheusRule, " is not managed by CMO">>
ErrUnexpectedSave(id) ==
  <<"unexpected error saving PrometheusRule ", id.namespace, "/", id.prometheusRule>>
ErrGroupNotFound == <<"CMO managed rule group not found">>
ErrSaveNotManaged ==
  <<"PrometheusRule already exists and is not managed by CMO alert management">>
ErrStore == <<"store error">>

----------------------------------------------------------------------------
(* management.go *)

\* Go map lookup: the zero value "" when the key is absent
LabelOf(labels, key) == IF key \in DOMAIN labels THEN labels[key] ELSE ""

\* variant: a failed get is taken for an absent document
getPrometheusRule_ErrorAsAbsent(st, ns, name, mode) ==
  LET r == StoreGet(st, ns, name, mode)
  IN IF r.pr = NoDoc \/ r.pr.name = ""
     THEN [pr |-> NoDoc, found |-> FALSE, err |-> Nil, call |-> GetCall(r)]
     ELSE [pr |-> r.pr, found |-> TRUE, err |-> Nil, call |-> GetCall(r)]

getPrometheusRule(st, ns, name, mode) ==
  LET r == StoreGet(st, ns, name, mode)
  IN IF r.err # "nil" /\ r.err # "notfound"
     THEN [pr |-> NoDoc, found |-> FALSE, err |-> ErrStore, call |-> GetCall(r)]
     ELSE IF r.pr = NoDoc \/ r.pr.name = ""
          THEN [pr |-> NoDoc, found |-> FALSE, err |-> Nil, call |-> GetCall(r)]
          ELSE [pr |-> r.pr, found |-> TRUE, err |-> Nil, call |-> GetCall(r)]

\* variant: the value is looked for under any label key
isCMOManagedPrometheusRule_AnyKey(pr) ==
  \E k \in DOMAIN pr.labels : pr.labels[k] = ResourceOwnerLabelValue

\* variant: the label value is not compared
isCMOManagedPrometheusRule_KeyOnly(pr) == ResourceOwnerLabelKey \in DOMAIN pr.labels

isCMOManagedPrometheusRule(pr) ==
  IF ~(ResourceOwnerLabelKey \in DOMAIN pr.labels)
     \/ pr.labels[ResourceOwnerLabelKey] # ResourceOwnerLabelValue
  THEN FALSE
  ELSE TRUE


\* variant: the loop takes a group without comparing its name
GroupIndexFrom_AnyName(groups, from) == IF from > Len(groups) THEN 0 ELSE from

\* first index i >= from with groups[i].name = PrometheusRuleGroupName, else 0
RECURSIVE GroupIndexFrom(_, _)
GroupIndexFrom(groups, from) ==
  IF from > Len(groups) THEN 0
  ELSE IF groups[from].name = PrometheusRuleGroupName THEN from
       ELSE GroupIndexFrom(groups, from + 1)

findCMOManagedRuleGroup(pr) ==
  LET i == GroupIndexFrom(pr.groups, 1)
  IN IF i # 0 THEN [index |-> i, err |-> Nil]
     ELSE [index |-> 0, err |-> ErrGroupNotFound]

\* variant: the written document carries no ownership label
NewPrometheusRule_NoMarker(ns, name, rules) ==
  [namespace |-> ns, name |-> name, labels |-> <<>>,
   groups |-> << [name |-> "cmo-alert-management", rules |-> rules] >>]

\* variant: the written group has another name than the one looked up
NewPrometheusRule_OtherGroupName(ns, name, rules) ==
  [namespace |-> ns, name |-> name,
   labels |-> [k \in {ResourceOwnerLabelKey} |-> ResourceOwnerLabelValue],
   groups |-> << [name |-> "alert-management", rules |-> rules] >>]

\* the document savePrometheusRule builds
NewPrometheusRule(ns, name, rules) ==
  [namespace |-> ns, name |-> name,
   labels |-> [k \in {ResourceOwnerLabelKey} |-> ResourceOwnerLabelValue],
   groups |-> << [name |-> "cmo-alert-management", rules |-> rules] >>]

\* variant: the ownership of the re-fetched document is not checked
SaveFetchStep_NoRevalidation(st, ns, name, rules, mode) ==
  LET g == getPrometheusRule(st, ns, name, mode)
  IN IF g.err # Nil
     THEN [err |-> g.err, next |-> "return", refetched |-> NoDoc, call |-> g.call]
     ELSE IF Len(rules) = 0
          THEN [err |-> Nil, next |-> IF g.found THEN "delete" ELSE "return",
                refetched |-> g.pr, call |-> g.call]
     ELSE [err |-> Nil, next |-> "write", refetched |-> g.pr, call |-> g.call]

\* variant: an empty rule list deletes without looking whether the document exists
SaveFetchStep_DeletesAbsent(st, ns, name, rules, mode) ==
  LET g == getPrometheusRule(st, ns, name, mode)
  IN IF g.err # Nil
     THEN [err |-> g.err, next |-> "return", refetched |-> NoDoc, call |-> g.call]
     ELSE IF g.found /\ ~isCMOManagedPrometheusRule(g.pr)
          THEN [err |-> ErrSaveNotManaged, next |-> "return", refetched |-> g.pr,
                call |-> g.call]
     ELSE IF Len(rules) = 0
          THEN [err |-> Nil, next |-> "delete", refetched |-> g.pr, call |-> g.call]
     ELSE [err |-> Nil, next |-> "write", refetched |-> g.pr, call |-> g.call]

\* savePrometheusRule up to its write: the fetch, the ownership check and the
\* choice of what follows (return, delete, createOrUpdate)
SaveFetchStep(st, ns, name, rules, mode) ==
  LET g == getPrometheusRule(st, ns, name, mode)
  IN IF g.err # Nil
     THEN [err |-> g.err, next |-> "return", refetched |-> NoDoc, call |-> g.call]
     ELSE IF g.found /\ ~isCMOManagedPrometheusRule(g.pr)
          THEN [err |-> ErrSaveNotManaged, next |-> "return", refetched |-> g.pr,
                call |-> g.call]
     ELSE IF Len(rules) = 0
          THEN [err |-> Nil, next |-> IF g.found THEN "delete" ELSE "return",
                refetched |-> g.pr, call |-> g.call]
     ELSE [err |-> Nil, next |-> "write", refetched |-> g.pr, call |-> g.call]

ErrRelabelNotManaged ==
  <<"AlertRelabelConfig already exists and is not managed by CMO alert management">>

\* the document saveAlertRelabelConfig builds
NewAlertRelabelConfig(ns, name, config) ==
  [namespace |-> ns, name |-> name,
   labels |-> [k \in {ResourceOwnerLabelKey} |-> ResourceOwnerLabelValue],
   configs |-> config]

\* saveAlertRelabelConfig up to its write: the fetch, the ownership check and
\* the choice of what follows (return, delete, createOrUpdate)
RelabelFetchStep(st, ns, name, config, mode) ==
  LET r == StoreGet(st, ns, name, mode)
  IN IF r.err # "nil" /\ r.err # "notfound"
     THEN [err |-> ErrStore, next |-> "return", call |-> GetCall(r)]
     ELSE IF r.pr # NoDoc /\ (ResourceOwnerLabelKey \notin DOMAIN r.pr.labels
                               \/ r.pr.labels[ResourceOwnerLabelKey] # ResourceOwnerLabelValue)
          THEN [err |-> ErrRelabelNotManaged, next |-> "return", call |-> GetCall(r)]
     ELSE IF Len(config) = 0
          THEN [err |-> Nil, next |-> "delete", call |-> GetCall(r)]
     ELSE [err |-> Nil, next |-> "write", call |-> GetCall(r)]

----------------------------------------------------------------------------
(* alerting_rule_crud.go *)

\* variant: the severity label is not compared
RuleMatches_NameOnly(rule, id) == rule.alert = id.ruleName

\* variant: || in place of &&
RuleMatches_Either(rule, id) ==
  rule.alert = id.ruleName \/ LabelOf(rule.labels, "severity") = id.severity

\* rule.Alert == arID.RuleName && rule.Labels["severity"] == arID.Severity
RuleMatches(rule, id) ==
  rule.alert = id.ruleName /\ LabelOf(rule.labels, "severity") = id.severity

\* the inner loop: the first rule of the group that matches, else NoRule
RECURSIVE ScanRules(_, _)
ScanRules(rules, id) ==
  IF rules = <<>> THEN NoRule
  ELSE IF RuleMatches(Head(rules), id) THEN Head(rules)
       ELSE ScanRules(Tail(rules), id)

\* variant: only the groups of the reserved name are searched
RECURSIVE ScanGroups_OwnedOnly(_, _)
ScanGroups_OwnedOnly(groups, id) ==
  IF groups = <<>> THEN NoRule
  ELSE IF Head(groups).name = PrometheusRuleGroupName
          /\ ScanRules(Head(groups).rules, id) # NoRule
       THEN ScanRules(Head(groups).rules, id)
       ELSE ScanGroups_OwnedOnly(Tail(groups), id)

\* the outer loop over prometheusRule.Spec.Groups
RECURSIVE ScanGroups(_, _)
ScanGroups(groups, id) ==
  IF groups = <<>> THEN NoRule
  ELSE IF ScanRules(Head(groups).rules, id) # NoRule THEN ScanRules(Head(groups).rules, id)
       ELSE ScanGroups(Tail(groups), id)

\* variant: a missing rule is reported with the message of a missing document
GetAlertingRule_OneNotFound(st, id, mode) ==
  LET r == StoreGet(st, id.namespace, id.prometheusRule, mode)
      calls == <<GetCall(r)>>
  IN IF r.err # "nil"
     THEN IF r.err = "notfound"
          THEN [store |-> st, rule |-> NoRule, err |-> ErrDocNotFound(id), calls |-> calls]
          ELSE [store |-> st, rule |-> NoRule, err |-> ErrUnexpectedGet(id), calls |-> calls]
     ELSE IF r.pr = NoDoc
          THEN [store |-> st, rule |-> NoRule, err |-> ErrDocNotFound(id), calls |-> calls]
     ELSE IF ScanGroups(r.pr.groups, id) # NoRule
          THEN [store |-> st, rule |-> ScanGroups(r.pr.groups, id), err |-> Nil, calls |-> calls]
     ELSE [store |-> st, rule |-> NoRule, err |-> ErrDocNotFound(id), calls |-> calls]

\* variant: a document found without any rule is deleted by the read
GetAlertingRule_PrunesEmpty(st, id, mode) ==
  LET r == StoreGet(st, id.namespace, id.prometheusRule, mode)
      calls == <<GetCall(r)>>
  IN IF r.err # "nil"
     THEN IF r.err = "notfound"
          THEN [store |-> st, rule |-> NoRule, err |-> ErrDocNotFound(id), calls |-> calls]
          ELSE [store |-> st, rule |-> NoRule, err |-> ErrUnexpectedGet(id), calls |-> calls]
     ELSE IF r.pr = NoDoc
          THEN [store |-> st, rule |-> NoRule, err |-> ErrDocNotFound(id), calls |-> calls]
     ELSE IF ScanGroups(r.pr.groups, id) # NoRule
          THEN [store |-> st, rule |-> ScanGroups(r.pr.groups, id), err |-> Nil, calls |-> calls]
     ELSE IF TotalRules(r.pr.groups) = 0
          THEN [store |-> StoreDelete(st, id.namespace, id.prometheusRule, TRUE),
                rule |-> NoRule, err |-> ErrRuleNotFound(id),
                calls |-> calls \o <<DeleteCall(TRUE)>>]
     ELSE [store |-> st, rule |-> NoRule, err |-> ErrRuleNotFound(id), calls |-> calls]

GetAlertingRule(st, id, mode) ==
  LET r == StoreGet(st, id.namespace, id.prometheusRule, mode)
      calls == <<GetCall(r)>>
  IN IF r.err # "nil"
     THEN IF r.err = "notfound"
          THEN [store |-> st, rule |-> NoRule, err |-> ErrDocNotFound(id), calls |-> calls]
          ELSE [store |-> st, rule |-> NoRule, err |-> ErrUnexpectedGet(id), calls |-> calls]
     ELSE IF r.pr = NoDoc
          THEN [store |-> st, rule |-> NoRule, err |-> ErrDocNotFound(id), calls |-> calls]
     ELSE IF ScanGroups(r.pr.groups, id) # NoRule
          THEN [store |-> st, rule |-> ScanGroups(r.pr.groups, id), err |-> Nil, calls |-> calls]
     ELSE [store |-> st, rule |-> NoRule, err |-> ErrRuleNotFound(id), calls |-> calls]

\* variant: the rule is put in front of the group's rules
AppendRule_Prepend(rules, rule) == <<rule>> \o rules

\* ruleGroup.Rules = append(ruleGroup.Rules, rule)
AppendRule(rules, rule) == Append(rules, rule)

\* variant: a managed document without the owned group gets a fresh one
CreateFetchStep_Synthesize(st, id, rule, mode) ==
  LET g == getPrometheusRule(st, id.namespace, id.prometheusRule, mode)
  IN IF g.err # Nil
     THEN [err |-> ErrUnexpectedGet(id), rules |-> <<>>, fetched |-> NoDoc, call |-> g.call]
     ELSE IF g.found /\ ~isCMOManagedPrometheusRule(g.pr)
          THEN [err |-> ErrNotManaged(id), rules |-> <<>>, fetched |-> g.pr, call |-> g.call]
     ELSE [err |-> Nil,
           rules |-> AppendRule(IF g.found /\ findCMOManagedRuleGroup(g.pr).err = Nil
                                THEN g.pr.groups[findCMOManagedRuleGroup(g.pr).index].rules
                                ELSE <<>>, rule),
           fetched |-> g.pr, call |-> g.call]

\* CreateAlertingRule up to the call of savePrometheusRule: the fetch, the
\* ownership check, the owned group and the append in memory
CreateFetchStep(st, id, rule, mode) ==
  LET g == getPrometheusRule(st, id.namespace, id.prometheusRule, mode)
  IN IF g.err # Nil
     THEN [err |-> ErrUnexpectedGet(id), rules |-> <<>>, fetched |-> NoDoc, call |-> g.call]
     ELSE IF g.found /\ ~isCMOManagedPrometheusRule(g.pr)
          THEN [err |-> ErrNotManaged(id), rules |-> <<>>, fetched |-> g.pr, call |-> g.call]
     ELSE IF g.found /\ findCMOManagedRuleGroup(g.pr).err # Nil
          THEN [err |-> findCMOManagedRuleGroup(g.pr).err, rules |-> <<>>, fetched |-> g.pr,
                call |-> g.call]
     ELSE [err |-> Nil,
           rules |-> AppendRule(IF g.found
                                THEN g.pr.groups[findCMOManagedRuleGroup(g.pr).index].rules
                                ELSE <<>>, rule),
           fetched |-> g.pr, call |-> g.call]

----------------------------------------------------------------------------
(* State machine: a caller issues one operation at a time and takes its    *)
(* response; an operation runs one step per store call, and another client *)
(* of the store may write between two of its steps.                        *)

Idle == [op |-> "none"]

\* no Poll call in progress
PollOff == [pc |-> "off"]

\* no concurrent callers
NoTasks == [none |-> TRUE]

InitStores ==
  { st \in [Keys -> UNION { DocsOf(k) : k \in Keys } \cup {NoDoc}] :
      \A k \in Keys : st[k] = NoDoc \/ (st[k].namespace = k[1] /\ st[k].name = k[2]) }

Init ==
  /\ store \in InitStores
  /\ resp = Idle
  /\ poll = PollOff
  /\ tasks = NoTasks
  /\ created = [k \in Keys |-> [tracked |-> store[k] = NoDoc, rules |-> <<>>]]

\* the cap on the growth of a document: a call of CreateAlertingRule begins
\* on documents of at most MaxRules rules
WithinBounds(st) ==
  \A k \in Keys : IF st[k] = NoDoc THEN TRUE ELSE TotalRules(st[k].groups) <= MaxRules

ForeignLabels == [k \in {ResourceOwnerLabelKey} |-> "someone-else"]

\* variant: a failure of savePrometheusRule is not returned
Respond_SwallowsSaveError(t, saveErr, calls) ==
  IF t.op = "Create"
  THEN [op |-> "Create", id |-> t.id, payload |-> t.payload, rule |-> t.payload,
        err |-> Nil, calls |-> calls, before |-> t.before, disturbed |-> t.disturbed]
  ELSE [op |-> "Save", id |-> t.id, rules |-> t.rules, err |-> saveErr,
        calls |-> calls, before |-> t.before, disturbed |-> t.disturbed]

\* what the caller gets from the call in progress once it ends with saveErr
\* as the result of savePrometheusRule
Respond(t, saveErr, calls) ==
  IF t.op = "Create"
  THEN [op |-> "Create", id |-> t.id, payload |-> t.payload,
        rule |-> IF saveErr = Nil THEN t.payload ELSE NoRule,
        err |-> IF saveErr = Nil THEN Nil ELSE ErrUnexpectedSave(t.id),
        calls |-> calls, before |-> t.before, disturbed |-> t.disturbed]
  ELSE [op |-> "Save", id |-> t.id, rules |-> t.rules, err |-> saveErr,
        calls |-> calls, before |-> t.before, disturbed |-> t.disturbed]

\* CreateAlertingRule from its entry to the call of savePrometheusRule
CreateAlertingRuleCall(id, rule, mode) ==
  LET r == CreateFetchStep(store, id, rule, mode)
  IN /\ resp = Idle
     /\ tasks = NoTasks
     /\ WithinBounds(store)
     /\ IF r.err # Nil
        THEN /\ resp' = [op |-> "Create", id |-> id, payload |-> rule, rule |-> NoRule,
                         err |-> r.err, calls |-> <<r.call>>, before |-> store,
                         disturbed |-> FALSE]
             /\ tasks' = tasks
        ELSE /\ tasks' = [op |-> "Create", pc |-> "save", id |-> id, payload |-> rule,
                          rules |-> r.rules, calls |-> <<r.call>>, before |-> store,
                          disturbed |-> FALSE]
             /\ resp' = resp
     /\ UNCHANGED <<store, created, poll>>

GetAlertingRuleCall(id, mode) ==
  LET r == GetAlertingRule(store, id, mode)
  IN /\ resp = Idle
     /\ tasks = NoTasks
     /\ resp' = [op |-> "Get", id |-> id, rule |-> r.rule, err |-> r.err,
                 calls |-> r.calls, before |-> store]
     /\ store' = r.store
     /\ UNCHANGED <<created, poll, tasks>>

\* savePrometheusRule entered by the package for one document and one rule
\* list, up to its write
SavePrometheusRuleCall(key, rules, mode) ==
  LET r == SaveFetchStep(store, key[1], key[2], rules, mode)
      t == [op |-> "Save", pc |-> r.next,
            id |-> [namespace |-> key[1], prometheusRule |-> key[2]],
            payload |-> NoRule, rules |-> rules, calls |-> <<r.call>>, before |-> store,
            disturbed |-> FALSE]
  IN /\ resp = Idle
     /\ tasks = NoTasks
     /\ IF r.next = "return"
        THEN /\ resp' = Respond(t, r.err, t.calls)
             /\ tasks' = tasks
        ELSE /\ tasks' = t
             /\ resp' = resp
     /\ UNCHANGED <<store, created, poll>>

\* savePrometheusRule entered by CreateAlertingRule, up to its write
SavePrometheusRuleFetch(mode) ==
  /\ tasks # NoTasks
  /\ tasks.pc = "save"
  /\ LET r == SaveFetchStep(store, tasks.id.namespace, tasks.id.prometheusRule,
                            tasks.rules, mode)
     IN IF r.next = "return"
        THEN /\ resp' = Respond(tasks, r.err, Append(tasks.calls, r.call))
             /\ tasks' = NoTasks
        ELSE /\ tasks' = [tasks EXCEPT !.pc = r.next, !.calls = Append(@, r.call)]
             /\ resp' = resp
  /\ UNCHANGED <<store, created, poll>>

\* savePrometheusRule writes the document it built
SavePrometheusRuleWrite(wok) ==
  /\ tasks # NoTasks
  /\ tasks.pc = "write"
  /\ LET key == <<tasks.id.namespace, tasks.id.prometheusRule>>
         newPR == NewPrometheusRule(tasks.id.namespace, tasks.id.prometheusRule, tasks.rules)
     IN /\ store' = StoreCreateOrUpdate(store, newPR, wok)
        /\ resp' = Respond(tasks, IF wok THEN Nil ELSE ErrStore,
                           Append(tasks.calls, WriteCall(newPR, wok)))
        /\ created' = IF ~wok \/ key \notin Keys THEN created
                      ELSE IF tasks.op = "Create" /\ created[key].tracked
                           THEN [created EXCEPT ![key].rules = Append(@, tasks.payload)]
                      ELSE IF tasks.op = "Create" THEN created
                      ELSE [created EXCEPT ![key] = [tracked |-> FALSE, rules |-> <<>>]]
  /\ tasks' = NoTasks
  /\ UNCHANGED poll

\* savePrometheusRule deletes the document when the rule list is empty
SavePrometheusRuleDelete(wok) ==
  /\ tasks # NoTasks
  /\ tasks.pc = "delete"
  /\ LET key == <<tasks.id.namespace, tasks.id.prometheusRule>>
     IN /\ store' = StoreDelete(store, tasks.id.namespace, tasks.id.prometheusRule, wok)
        /\ resp' = Respond(tasks, IF wok THEN Nil ELSE ErrStore,
                           Append(tasks.calls, DeleteCall(wok)))
        /\ created' = IF wok /\ key \in Keys
                      THEN [created EXCEPT ![key] = [tracked |-> TRUE, rules |-> <<>>]]
                      ELSE created
  /\ tasks' = NoTasks
  /\ UNCHANGED poll

OtherWriteKinds == {"delete", "foreign", "managed"}

\* what another client of the store leaves under a key: nothing, the document
\* under its own marker, or a managed document of its own
OtherDoc(key, doc, kind) ==
  IF kind = "delete" THEN NoDoc
  ELSE IF kind = "foreign"
       THEN IF doc = NoDoc
            THEN [namespace |-> key[1], name |-> key[2], labels |-> ForeignLabels,
                  groups |-> << [name |-> "test-group", rules |-> <<>>] >>]
            ELSE [doc EXCEPT !.labels = ForeignLabels]
  ELSE [namespace |-> key[1], name |-> key[2],
        labels |-> [k \in {ResourceOwnerLabelKey} |-> ResourceOwnerLabelValue],
        groups |-> << [name |-> PrometheusRuleGroupName,
                       rules |-> << MkRule("B", "critical", "e1") >>] >>]

\* another client of the store writes between two store calls of the call in
\* progress
OtherWrite(key, kind) ==
  /\ tasks # NoTasks
  /\ ~tasks.disturbed
  /\ OtherDoc(key, store[key], kind) # store[key]
  /\ store' = [store EXCEPT ![key] = OtherDoc(key, store[key], kind)]
  /\ tasks' = [tasks EXCEPT !.disturbed = TRUE]
  /\ created' = [created EXCEPT ![key] = [tracked |-> FALSE, rules |-> <<>>]]
  /\ UNCHANGED <<resp, poll>>

\* the caller takes the response
Return ==
  /\ resp # Idle
  /\ resp' = Idle
  /\ UNCHANGED <<store, created, poll, tasks>>

Next ==
  \/ \E id \in Ids, rule \in Rules, mode \in GetModes : CreateAlertingRuleCall(id, rule, mode)
  \/ \E id \in Ids, mode \in GetModes : GetAlertingRuleCall(id, mode)
  \/ \E key \in Keys, rules \in SaveRuleSeqs, mode \in GetModes :
       SavePrometheusRuleCall(key, rules, mode)
  \/ \E mode \in GetModes : SavePrometheusRuleFetch(mode)
  \/ \E wok \in BOOLEAN : SavePrometheusRuleWrite(wok)
  \/ \E wok \in BOOLEAN : SavePrometheusRuleDelete(wok)
  \/ \E key \in Keys, kind \in OtherWriteKinds : OtherWrite(key, kind)
  \/ Return

Spec == Init /\ [][Next]_vars

----------------------------------------------------------------------------
(* The ownership check on its own, over documents with any label map *)

OwnershipLabelKeys == {ResourceOwnerLabelKey, "app"}
OwnershipLabelValues == {ResourceOwnerLabelValue, "someone-else", "Alert-Management", ""}

OwnershipLabelSets ==
  UNION { [ks -> OwnershipLabelValues] : ks \in SUBSET OwnershipLabelKeys }

OwnershipDocs(key) ==
  { [namespace |-> key[1], name |-> key[2], labels |-> l,
     groups |-> [i \in 1..Len(layout) |-> [name |-> layout[i], rules |-> <<>>]]] :
      l \in OwnershipLabelSets, layout \in GroupLayouts }

InitOwnership ==
  /\ store \in { st \in [Keys -> UNION { OwnershipDocs(k) : k \in Keys }] :
                   \A k \in Keys : st[k].namespace = k[1] /\ st[k].name = k[2] }
  /\ resp = Idle
  /\ poll = PollOff
  /\ tasks = NoTasks
  /\ created = [k \in Keys |-> [tracked |-> FALSE, rules |-> <<>>]]

\* isCMOManagedPrometheusRule applied to the stored document
IsManagedCall(key) ==
  /\ resp = Idle
  /\ store[key] # NoDoc
  /\ resp' = [op |-> "IsManaged", id |-> [namespace |-> key[1], prometheusRule |-> key[2]],
              result |-> isCMOManagedPrometheusRule(store[key]), before |-> store]
  /\ UNCHANGED <<store, created, poll, tasks>>

NextOwnership ==
  \/ \E key \in Keys : IsManagedCall(key)
  \/ Return

SpecOwnership == InitOwnership /\ [][NextOwnership]_vars

----------------------------------------------------------------------------
(* httpserver/alertmanagement.go: ParseAlertingRuleId *)

PathNames == {"namespace", "prometheusrule", "ruleName", "severity"}
PathStrings == {"", "a", "b"}

\* requests: the path values that are set, each with its string
Requests == UNION { [ns -> PathStrings] : ns \in SUBSET PathNames }

\* r.PathValue(name): the empty string when the value is not set
PathValue(r, name) == IF name \in DOMAIN r THEN r[name] ELSE ""

ErrMissingParameters == <<"missing required path parameters">>

\* variant: the severity is not required
ParseAlertingRuleId_SeverityOptional(r) ==
  LET arId == [namespace |-> PathValue(r, "namespace"),
               prometheusRule |-> PathValue(r, "prometheusrule"),
               ruleName |-> PathValue(r, "ruleName"),
               severity |-> PathValue(r, "severity")]
  IN IF arId.namespace = "" \/ arId.prometheusRule = "" \/ arId.ruleName = ""
     THEN [id |-> arId, err |-> ErrMissingParameters]
     ELSE [id |-> arId, err |-> Nil]

ParseAlertingRuleId(r) ==
  LET arId == [namespace |-> PathValue(r, "namespace"),
               prometheusRule |-> PathValue(r, "prometheusrule"),
               ruleName |-> PathValue(r, "ruleName"),
               severity |-> PathValue(r, "severity")]
  IN IF arId.namespace = "" \/ arId.prometheusRule = "" \/ arId.ruleName = ""
        \/ arId.severity = ""
     THEN [id |-> arId, err |-> ErrMissingParameters]
     ELSE [id |-> arId, err |-> Nil]

InitParse ==
  /\ store = [k \in Keys |-> NoDoc]
  /\ resp = Idle
  /\ poll = PollOff
  /\ tasks = NoTasks
  /\ created = [k \in Keys |-> [tracked |-> TRUE, rules |-> <<>>]]

ParseAlertingRuleIdCall(r) ==
  /\ resp = Idle
  /\ resp' = [op |-> "Parse", request |-> r, id |-> ParseAlertingRuleId(r).id,
              err |-> ParseAlertingRuleId(r).err]
  /\ UNCHANGED <<store, created, poll, tasks>>

NextParse ==
  \/ \E r \in Requests : ParseAlertingRuleIdCall(r)
  \/ Return

SpecParse == InitParse /\ [][NextParse]_vars

----------------------------------------------------------------------------
(* The controller called with identities that may have empty fields *)

IdsWithEmpty ==
  [namespace : Namespaces \cup {""}, prometheusRule : DocNames \cup {""},
   ruleName : RuleNames \cup {""}, severity : Severities \cup {""}]

IdentityDocs(key) ==
  { [namespace |-> key[1], name |-> key[2],
     labels |-> [k \in {ResourceOwnerLabelKey} |-> ResourceOwnerLabelValue],
     groups |-> << [name |-> PrometheusRuleGroupName, rules |-> rs] >>] :
      rs \in SaveRuleSeqs }

InitIdentity ==
  /\ store \in { st \in [Keys -> UNION { IdentityDocs(k) : k \in Keys } \cup {NoDoc}] :
                   \A k \in Keys : st[k] = NoDoc \/ (st[k].namespace = k[1] /\ st[k].name = k[2]) }
  /\ resp = Idle
  /\ poll = PollOff
  /\ tasks = NoTasks
  /\ created = [k \in Keys |-> [tracked |-> store[k] = NoDoc, rules |-> <<>>]]

\* payloads of the Creates
IdentityRules == { MkRule("A", "critical", "e1"), MkRule("B", "critical", "e1") }

NextIdentity ==
  \/ \E id \in IdsWithEmpty, rule \in IdentityRules, mode \in GetModes :
       CreateAlertingRuleCall(id, rule, mode)
  \/ \E id \in IdsWithEmpty, mode \in GetModes : GetAlertingRuleCall(id, mode)
  \/ \E mode \in GetModes : SavePrometheusRuleFetch(mode)
  \/ \E wok \in BOOLEAN : SavePrometheusRuleWrite(wok)
  \/ \E key \in Keys, kind \in OtherWriteKinds : OtherWrite(key, kind)
  \/ Return

SpecIdentity == InitIdentity /\ [][NextIdentity]_vars

----------------------------------------------------------------------------
(* httpserver/alertmanagement.go: getAlertingRuleHandler *)

TheKey == <<"ns", "pr1">>

\* requests that name the documents of the store, a path value possibly empty
HandlerRequests ==
  [namespace : Namespaces \cup {""}, prometheusrule : DocNames \cup {""},
   ruleName : RuleNames \cup {""}, severity : Severities \cup {""}]

ErrEncode == <<"encode error">>

\* what the controller returned to the handler
NotCalled == [called |-> FALSE]
Got(g) == [called |-> TRUE, rule |-> g.rule, err |-> g.err]

\* the status the handler answers with, and the controller's result; encOK says
\* whether the encoder wrote the rule to the response
getAlertingRuleHandler(st, r, mode, encOK) ==
  LET p == ParseAlertingRuleId(r)
      g == GetAlertingRule(st, p.id, mode)
  IN IF p.err # Nil
     THEN [status |-> 400, body |-> p.err, store |-> st, calls |-> <<>>, got |-> NotCalled]
     ELSE IF g.err # Nil
          THEN [status |-> 500, body |-> g.err, store |-> g.store, calls |-> g.calls,
                got |-> Got(g)]
     ELSE IF g.rule = NoRule
          THEN [status |-> 404, body |-> <<"alerting rule not found">>, store |-> g.store,
                calls |-> g.calls, got |-> Got(g)]
     ELSE IF ~encOK
          THEN [status |-> 500, body |-> ErrEncode, store |-> g.store, calls |-> g.calls,
                got |-> Got(g)]
     ELSE [status |-> 200, body |-> g.rule, store |-> g.store, calls |-> g.calls,
           got |-> Got(g)]

InitHandler ==
  /\ store \in { [k \in Keys |-> d] : d \in IdentityDocs(TheKey) \cup {NoDoc} }
  /\ resp = Idle
  /\ poll = PollOff
  /\ tasks = NoTasks
  /\ created = [k \in Keys |-> [tracked |-> FALSE, rules |-> <<>>]]

GetAlertingRuleHandlerCall(r, mode, encOK) ==
  LET h == getAlertingRuleHandler(store, r, mode, encOK)
  IN /\ resp = Idle
     /\ store' = h.store
     /\ resp' = [op |-> "GetHandler", request |-> r, status |-> h.status, body |-> h.body,
                 got |-> h.got, calls |-> h.calls, before |-> store]
     /\ UNCHANGED <<created, poll, tasks>>

NextHandler ==
  \/ \E r \in HandlerRequests, mode \in GetModes, encOK \in BOOLEAN :
       GetAlertingRuleHandlerCall(r, mode, encOK)
  \/ Return

SpecHandler == InitHandler /\ [][NextHandler]_vars

----------------------------------------------------------------------------
(* The two save operations side by side: the store holds the rule documents *)
(* and the relabel documents, and both saves are called for the same name.   *)

RelabelConfigSeqs == { <<>>, <<"c1">>, <<"c1", "c2">> }

SideRuleDocs(key) ==
  IdentityDocs(key)
    \cup { [namespace |-> key[1], name |-> key[2], labels |-> l,
            groups |-> << [name |-> PrometheusRuleGroupName, rules |-> <<>>] >>] :
            l \in LabelSets }

SideRelabelDocs(key) ==
  { [namespace |-> key[1], name |-> key[2], labels |-> l, configs |-> c] :
      l \in LabelSets, c \in RelabelConfigSeqs }

SideRulePayloads == { <<>>, << MkRule("A", "critical", "e1") >> }
SideRelabelPayloads == { <<>>, <<"c1">> }

SideIdle == [pc |-> "idle"]

InitSideBySide ==
  /\ store \in { [rules |-> [k \in Keys |-> d], relabel |-> [k \in Keys |-> e]] :
                   d \in SideRuleDocs(TheKey) \cup {NoDoc},
                   e \in SideRelabelDocs(TheKey) \cup {NoDoc} }
  /\ resp = Idle
  /\ poll = PollOff
  /\ tasks = [ruleSave |-> SideIdle, relabelSave |-> SideIdle, otherWrites |-> 0]
  /\ created = [k \in Keys |-> [tracked |-> FALSE, rules |-> <<>>]]

\* a save from its entry to its write: the document its fetch met, the
\* store's answers, its store calls and its result
SideTask(key, payload, seen, mode, r) ==
  [pc |-> IF r.next = "return" THEN "done" ELSE r.next, key |-> key, payload |-> payload,
   seen |-> seen, mode |-> mode, wok |-> "none", err |-> r.err, calls |-> <<r.call>>]

\* savePrometheusRule up to its write
SideRuleSaveCall(key, rules, mode) ==
  /\ tasks.ruleSave.pc = "idle"
  /\ tasks' = [tasks EXCEPT !.ruleSave =
                 SideTask(key, rules, store.rules[key], mode,
                          SaveFetchStep(store.rules, key[1], key[2], rules, mode))]
  /\ UNCHANGED <<store, resp, created, poll>>

SideRuleSaveWrite(wok) ==
  LET t == tasks.ruleSave
      newPR == NewPrometheusRule(t.key[1], t.key[2], t.payload)
  IN /\ t.pc = "write"
     /\ store' = [store EXCEPT !.rules = StoreCreateOrUpdate(@, newPR, wok)]
     /\ tasks' = [tasks EXCEPT !.ruleSave =
                    [t EXCEPT !.pc = "done", !.wok = IF wok THEN "ok" ELSE "error",
                              !.err = IF wok THEN Nil ELSE ErrStore,
                              !.calls = Append(@, WriteCall(newPR, wok))]]
     /\ UNCHANGED <<resp, created, poll>>

SideRuleSaveDelete(wok) ==
  LET t == tasks.ruleSave
  IN /\ t.pc = "delete"
     /\ store' = [store EXCEPT !.rules = StoreDelete(@, t.key[1], t.key[2], wok)]
     /\ tasks' = [tasks EXCEPT !.ruleSave =
                    [t EXCEPT !.pc = "done", !.wok = IF wok THEN "ok" ELSE "error",
                              !.err = IF wok THEN Nil ELSE ErrStore,
                              !.calls = Append(@, DeleteCall(wok))]]
     /\ UNCHANGED <<resp, created, poll>>

\* saveAlertRelabelConfig up to its write
SideRelabelSaveCall(key, config, mode) ==
  /\ tasks.relabelSave.pc = "idle"
  /\ tasks' = [tasks EXCEPT !.relabelSave =
                 SideTask(key, config, store.relabel[key], mode,
                          RelabelFetchStep(store.relabel, key[1], key[2], config, mode))]
  /\ UNCHANGED <<store, resp, created, poll>>

SideRelabelSaveWrite(wok) ==
  LET t == tasks.relabelSave
      newRC == NewAlertRelabelConfig(t.key[1], t.key[2], t.payload)
  IN /\ t.pc = "write"
     /\ store' = [store EXCEPT !.relabel = StoreCreateOrUpdate(@, newRC, wok)]
     /\ tasks' = [tasks EXCEPT !.relabelSave =
                    [t EXCEPT !.pc = "done", !.wok = IF wok THEN "ok" ELSE "error",
                              !.err = IF wok THEN Nil ELSE ErrStore,
                              !.calls = Append(@, WriteCall(newRC, wok))]]
     /\ UNCHANGED <<resp, created, poll>>

SideRelabelSaveDelete(wok) ==
  LET t == tasks.relabelSave
  IN /\ t.pc = "delete"
     /\ store' = [store EXCEPT !.relabel = StoreDelete(@, t.key[1], t.key[2], wok)]
     /\ tasks' = [tasks EXCEPT !.relabelSave =
                    [t EXCEPT !.pc = "done", !.wok = IF wok THEN "ok" ELSE "error",
                              !.err = IF wok THEN Nil ELSE ErrStore,
                              !.calls = Append(@, DeleteCall(wok))]]
     /\ UNCHANGED <<resp, created, poll>>

\* another client of the stores removes a document or puts its own marker on
\* it, or creates the document under its own marker
SideOtherWrite(side, remove) ==
  /\ tasks.otherWrites < MaxForeignWrites
  /\ IF remove THEN store[side][TheKey] # NoDoc ELSE TRUE
  /\ store' = [store EXCEPT ![side][TheKey] =
                 IF remove THEN NoDoc
                 ELSE IF @ # NoDoc THEN [@ EXCEPT !.labels = ForeignLabels]
                 ELSE IF side = "rules"
                      THEN [namespace |-> TheKey[1], name |-> TheKey[2],
                            labels |-> ForeignLabels,
                            groups |-> << [name |-> "test-group", rules |-> <<>>] >>]
                 ELSE [namespace |-> TheKey[1], name |-> TheKey[2],
                       labels |-> ForeignLabels, configs |-> <<"c2">>]]
  /\ tasks' = [tasks EXCEPT !.otherWrites = @ + 1]
  /\ UNCHANGED <<resp, created, poll>>

NextSideBySide ==
  \/ \E key \in Keys, rules \in SideRulePayloads, mode \in GetModes :
       SideRuleSaveCall(key, rules, mode)
  \/ \E wok \in BOOLEAN : SideRuleSaveWrite(wok)
  \/ \E wok \in BOOLEAN : SideRuleSaveDelete(wok)
  \/ \E key \in Keys, config \in SideRelabelPayloads, mode \in GetModes :
       SideRelabelSaveCall(key, config, mode)
  \/ \E wok \in BOOLEAN : SideRelabelSaveWrite(wok)
  \/ \E wok \in BOOLEAN : SideRelabelSaveDelete(wok)
  \/ \E side \in {"rules", "relabel"}, remove \in BOOLEAN : SideOtherWrite(side, remove)

SpecSideBySide == InitSideBySide /\ [][NextSideBySide]_vars

----------------------------------------------------------------------------
(* Concurrent callers: CreateAlertingRule runs as three steps, one per store *)
(* call, next to another CreateAlertingRule and to a foreign writer of the    *)
(* same document.                                                            *)

Callers == {"c1", "c2"}
IdOf(key, rule) ==
  [namespace |-> key[1], prometheusRule |-> key[2], ruleName |-> rule.alert,
   severity |-> LabelOf(rule.labels, "severity")]

IdleTask == [pc |-> "idle"]

InitConcurrent ==
  /\ store \in { [k \in Keys |-> d] : d \in IdentityDocs(TheKey) \cup {NoDoc} }
  /\ resp = Idle
  /\ created = [k \in Keys |-> [tracked |-> FALSE, rules |-> <<>>]]
  /\ poll = PollOff
  /\ tasks = [callers |-> [c \in Callers |-> IdleTask], foreignWrites |-> 0]

\* a caller enters CreateAlertingRule and runs it up to savePrometheusRule
CreateBegin(c, rule, mode) ==
  LET id == IdOf(TheKey, rule)
      r == CreateFetchStep(store, id, rule, mode)
  IN /\ tasks.callers[c].pc = "idle"
     /\ tasks' = [tasks EXCEPT !.callers[c] =
                    [pc |-> IF r.err = Nil THEN "save" ELSE "done", id |-> id, rule |-> rule,
                     rules |-> r.rules, fetched |-> r.fetched, refetched |-> NoDoc,
                     err |-> r.err, calls |-> <<"get">>, replaced |-> NoDoc]]
     /\ UNCHANGED <<store, resp, created, poll>>

\* savePrometheusRule re-fetches the document and checks its owner
SaveFetch(c, mode) ==
  LET t == tasks.callers[c]
      r == SaveFetchStep(store, t.id.namespace, t.id.prometheusRule, t.rules, mode)
  IN /\ t.pc = "save"
     /\ tasks' = [tasks EXCEPT !.callers[c] =
                    [t EXCEPT !.pc = IF r.next = "return" THEN "done" ELSE r.next,
                              !.refetched = r.refetched,
                              !.err = IF r.err = Nil THEN Nil ELSE ErrUnexpectedSave(t.id),
                              !.calls = Append(@, "get")]]
     /\ UNCHANGED <<store, resp, created, poll>>

\* savePrometheusRule writes the document it built
SaveWrite(c, wok) ==
  LET t == tasks.callers[c]
      newPR == NewPrometheusRule(t.id.namespace, t.id.prometheusRule, t.rules)
  IN /\ t.pc = "write"
     /\ store' = StoreCreateOrUpdate(store, newPR, wok)
     /\ tasks' = [tasks EXCEPT !.callers[c] =
                    [t EXCEPT !.pc = "done",
                              !.err = IF wok THEN Nil ELSE ErrUnexpectedSave(t.id),
                              !.calls = Append(@, "createOrUpdate"),
                              !.replaced = IF wok THEN store[TheKey] ELSE NoDoc]]
     /\ UNCHANGED <<resp, created, poll>>

\* another writer creates the document under its own marker, or puts its marker
\* on the document that is there
ForeignWrite ==
  /\ tasks.foreignWrites < MaxForeignWrites
  /\ store' = [store EXCEPT ![TheKey] =
                 IF @ = NoDoc
                 THEN [namespace |-> TheKey[1], name |-> TheKey[2], labels |-> ForeignLabels,
                       groups |-> << [name |-> "test-group", rules |-> <<>>] >>]
                 ELSE [@ EXCEPT !.labels = ForeignLabels]]
  /\ tasks' = [tasks EXCEPT !.foreignWrites = @ + 1]
  /\ UNCHANGED <<resp, created, poll>>

NextConcurrent ==
  \/ \E c \in Callers, rule \in Rules, mode \in GetModes : CreateBegin(c, rule, mode)
  \/ \E c \in Callers, mode \in GetModes : SaveFetch(c, mode)
  \/ \E c \in Callers, wok \in BOOLEAN : SaveWrite(c, wok)
  \/ ForeignWrite

SpecConcurrent == InitConcurrent /\ [][NextConcurrent]_vars

----------------------------------------------------------------------------
(* prometheus/client.go: Poll, in discrete time units *)

MaxInterval == 2
MaxTimeout == 4
MaxFail == 2
MaxProbeTime == 3

\* the error of the probe's n-th invocation; the probe succeeds from invocation
\* succeedAt on, never when succeedAt is 0
ProbeError(n) == <<"probe failed", n>>
Probe(succeedAt, n) == IF succeedAt # 0 /\ n >= succeedAt THEN Nil ELSE ProbeError(n)

ErrDeadlineExceeded == <<"context deadline exceeded">>

\* wait.Interrupted
Interrupted(err) == err = ErrDeadlineExceeded

\* variant: an error of the probe ends the polling
PollCallback_StopsOnError(lastErr, probeErr) ==
  [lastErr |-> probeErr, done |-> probeErr # Nil]

\* variant: the first error of the probe is kept
PollCallback_KeepsFirst(lastErr, probeErr) ==
  [lastErr |-> IF lastErr = Nil THEN probeErr ELSE lastErr, done |-> probeErr = Nil]

\* the condition handed to wait.PollUntilContextTimeout, given f's return value
PollCallback(lastErr, probeErr) ==
  [lastErr |-> probeErr, done |-> probeErr = Nil]

\* variant: the error of the wait is dropped
PollReturn_Swallows(err, lastErr) == Nil

\* variant: the error of the wait is returned as it is
PollReturn_TimeoutOnly(err, lastErr) == err

\* what Poll returns, given what wait.PollUntilContextTimeout returned
PollReturn(err, lastErr) ==
  IF err # Nil /\ Interrupted(err) /\ lastErr # Nil
  THEN err \o <<": ">> \o lastErr
  ELSE err

InitPoll ==
  /\ store = [k \in Keys |-> NoDoc]
  /\ resp = Idle
  /\ created = [k \in Keys |-> [tracked |-> TRUE, rules |-> <<>>]]
  /\ poll = PollOff
  /\ tasks = NoTasks

\* Poll(interval, timeout, f): the deadline is set, the ticker of the interval is
\* started, and the condition is about to run without waiting (immediate)
PollCall(interval, timeout, succeedAt) ==
  /\ poll.pc = "off"
  /\ poll' = [pc |-> "invoke", interval |-> interval, timeout |-> timeout,
              succeedAt |-> succeedAt, now |-> 0, buffered |-> FALSE,
              nextTick |-> interval, starts |-> <<>>, ends |-> <<>>,
              lastErr |-> Nil, result |-> Nil]
  /\ UNCHANGED <<store, resp, created, tasks>>

\* one run of the condition: f is invoked and returns d units later; a tick that
\* fires meanwhile stays in the ticker's channel (which holds one tick)
PollInvoke(d) ==
  /\ poll.pc = "invoke"
  /\ LET n == Len(poll.starts) + 1
         cb == PollCallback(poll.lastErr, Probe(poll.succeedAt, n))
         t == poll.now + d
         fired == poll.nextTick <= t
     IN poll' = [poll EXCEPT !.now = t,
                             !.starts = Append(@, poll.now),
                             !.ends = Append(@, t),
                             !.lastErr = cb.lastErr,
                             !.buffered = poll.buffered \/ fired,
                             !.nextTick = IF fired THEN ((t \div poll.interval) + 1) * poll.interval
                                          ELSE @,
                             !.pc = IF cb.done THEN "done" ELSE "wait",
                             !.result = IF cb.done THEN PollReturn(Nil, cb.lastErr) ELSE @]
  /\ UNCHANGED <<store, resp, created, tasks>>

\* the wait ends with a tick while the deadline has not passed (a tick at the very
\* instant of the deadline may still win): the condition runs again
PollTick ==
  /\ poll.pc = "wait"
  /\ LET tm == IF poll.buffered THEN poll.now ELSE poll.nextTick
     IN /\ tm <= poll.timeout
        /\ poll' = [poll EXCEPT !.pc = "invoke", !.now = tm, !.buffered = FALSE,
                                !.nextTick = IF poll.buffered THEN @ ELSE @ + poll.interval]
  /\ UNCHANGED <<store, resp, created, tasks>>

\* the wait ends with the deadline (reached already, or reached no later than the
\* next tick): Poll returns
PollTimeout ==
  /\ poll.pc = "wait"
  /\ LET tm == IF poll.buffered THEN poll.now ELSE poll.nextTick
     IN /\ tm >= poll.timeout
        /\ poll' = [poll EXCEPT !.pc = "done",
                                !.now = IF poll.now >= poll.timeout THEN poll.now
                                        ELSE poll.timeout,
                                !.result = PollReturn(ErrDeadlineExceeded, poll.lastErr)]
  /\ UNCHANGED <<store, resp, created, tasks>>

NextPoll ==
  \/ \E interval \in 1..MaxInterval, timeout \in 0..MaxTimeout, succeedAt \in 0..(MaxFail + 1) :
       PollCall(interval, timeout, succeedAt)
  \/ \E d \in 0..MaxProbeTime : PollInvoke(d)
  \/ PollTick
  \/ PollTimeout

SpecPoll == InitPoll /\ [][NextPoll]_vars

SpecPollFair == SpecPoll /\ WF_vars(NextPoll)

----------------------------------------------------------------------------
(* Vocabulary of the properties, stated on the documents themselves *)

RespKey == <<resp.id.namespace, resp.id.prometheusRule>>
BeforeDoc == resp.before[RespKey]
AfterDoc == store[RespKey]

CarriesMarker(doc) ==
  /\ ResourceOwnerLabelKey \in DOMAIN doc.labels
  /\ doc.labels[ResourceOwnerLabelKey] = ResourceOwnerLabelValue

HasIdentity(rule, id) ==
  /\ rule.alert = id.ruleName
  /\ "severity" \in DOMAIN rule.labels
  /\ rule.labels["severity"] = id.severity

MinOf(S) == CHOOSE i \in S : \A j \in S : i <= j

OwnedIndexes(doc) == { i \in 1..Len(doc.groups) : doc.groups[i].name = PrometheusRuleGroupName }

\* rules of the first group with the reserved name, none when there is no such group
FirstOwnedRules(doc) ==
  IF doc = NoDoc THEN <<>>
  ELSE IF OwnedIndexes(doc) = {} THEN <<>>
  ELSE doc.groups[MinOf(OwnedIndexes(doc))].rules

ForeignGroups(doc) == SelectSeq(doc.groups, LAMBDA g : g.name # PrometheusRuleGroupName)

RECURSIVE Flatten(_)
Flatten(groups) == IF groups = <<>> THEN <<>> ELSE Head(groups).rules \o Flatten(Tail(groups))

MatchIndexes(rules, id) == { i \in 1..Len(rules) : HasIdentity(rules[i], id) }

CallsOf(op) == { i \in 1..Len(resp.calls) : resp.calls[i].op = op }
StoreAnswered == \A i \in 1..Len(resp.calls) : resp.calls[i].ret # "error"

\* no get of the call met a document
FetchesMetNoDocument == \A i \in CallsOf("get") : resp.calls[i].ret # "doc"

\* no other client of the store wrote between two store calls of the call
Undisturbed == ~resp.disturbed

----------------------------------------------------------------------------
(* Properties *)

\* C1: every CreateAlertingRule that succeeds on an existing controller-managed
\* document leaves every group other than the reserved owned group in the
\* persisted document, with the same name, rules and order as before the call.
C1_ForeignGroupsPreserved ==
  (resp.op = "Create" /\ resp.err = Nil /\ BeforeDoc # NoDoc /\ CarriesMarker(BeforeDoc))
    => /\ AfterDoc # NoDoc
       /\ ForeignGroups(AfterDoc) = ForeignGroups(BeforeDoc)

\* C2: CreateAlertingRule on a document that exists and does not carry the exact
\* ownership marker fails with the not-managed error, returns no rule, issues no
\* createOrUpdate and no delete, and leaves the store as it was.
C2_ForeignDocumentRejected ==
  (resp.op = "Create" /\ resp.calls[1].ret = "doc" /\ ~CarriesMarker(BeforeDoc))
    => /\ resp.err = ErrNotManaged(resp.id)
       /\ resp.rule = NoRule
       /\ CallsOf("createOrUpdate") = {}
       /\ CallsOf("delete") = {}
       /\ store = resp.before

C2_Witness ==
  /\ resp.op = "Create"
  /\ resp.calls[1].ret = "doc"
  /\ ResourceOwnerLabelKey \in DOMAIN BeforeDoc.labels
  /\ BeforeDoc.labels[ResourceOwnerLabelKey] = "someone-else"
  /\ OwnedIndexes(BeforeDoc) # {}
  /\ resp.err = ErrNotManaged(resp.id)

\* C3 as stated: whenever CreateAlertingRule(id, rule) succeeds, a GetAlertingRule(id)
\* that follows at once succeeds and returns the payload given to Create. It is
\* stated here for the payloads that carry the name and severity of id, which the
\* claim covers; a payload that does not carry them fails it as well.
C3_CreateThenGet ==
  (resp.op = "Create" /\ resp.err = Nil /\ HasIdentity(resp.payload, resp.id))
    => /\ GetAlertingRule(store, resp.id, "ok").err = Nil
       /\ GetAlertingRule(store, resp.id, "ok").rule = resp.payload

\* C3 amended: whenever CreateAlertingRule(id, rule) succeeds with a payload whose
\* alert name and severity label are those of id, on a store whose owned group
\* held no rule of that name and severity, a GetAlertingRule(id) that follows at
\* once (the store answering) succeeds and returns the payload.
C3_CreateThenGetFresh ==
  (/\ resp.op = "Create" /\ resp.err = Nil
   /\ HasIdentity(resp.payload, resp.id)
   /\ MatchIndexes(FirstOwnedRules(BeforeDoc), resp.id) = {})
    => /\ GetAlertingRule(store, resp.id, "ok").err = Nil
       /\ GetAlertingRule(store, resp.id, "ok").rule = resp.payload

C3_Witness ==
  /\ resp.op = "Create" /\ resp.err = Nil
  /\ HasIdentity(resp.payload, resp.id)
  /\ BeforeDoc # NoDoc
  /\ Len(FirstOwnedRules(BeforeDoc)) > 0
  /\ FirstOwnedRules(BeforeDoc)[1].alert = resp.id.ruleName
  /\ MatchIndexes(FirstOwnedRules(BeforeDoc), resp.id) = {}
  /\ GetAlertingRule(store, resp.id, "ok").rule = resp.payload

\* C4: CreateAlertingRule for a (namespace, name) with no document (at the call
\* and at each fetch of the call), the store answering every call, succeeds with
\* exactly one createOrUpdate and no delete, and the persisted document carries
\* the ownership marker and exactly one group, of the reserved name, whose rules
\* are exactly the created rule.
C4_CreatesNewDocument ==
  (resp.op = "Create" /\ BeforeDoc = NoDoc /\ StoreAnswered /\ FetchesMetNoDocument)
    => /\ resp.err = Nil
       /\ resp.rule = resp.payload
       /\ Cardinality(CallsOf("createOrUpdate")) = 1
       /\ CallsOf("delete") = {}
       /\ AfterDoc # NoDoc
       /\ CarriesMarker(AfterDoc)
       /\ AfterDoc.namespace = resp.id.namespace
       /\ AfterDoc.name = resp.id.prometheusRule
       /\ AfterDoc.groups = << [name |-> PrometheusRuleGroupName, rules |-> <<resp.payload>>] >>
       /\ \A i \in CallsOf("createOrUpdate") : resp.calls[i].arg = AfterDoc

C4_Witness ==
  /\ resp.op = "Create" /\ BeforeDoc = NoDoc /\ StoreAnswered /\ FetchesMetNoDocument
  /\ Len(resp.calls) = 3
  /\ resp.err = Nil
  /\ AfterDoc # NoDoc
  /\ Len(AfterDoc.groups) = 1

\* C5: after any sequence of successful CreateAlertingRule calls on a document
\* that did not exist at first, the stored document carries the exact marker and
\* exactly one group, of the reserved name, holding the created rules in creation
\* order; the ownership check and the owned-group lookup of a later Create succeed.
C5_CreatedDocumentStaysOwned ==
  \A k \in Keys :
    (created[k].tracked /\ created[k].rules # <<>>)
      => /\ store[k] # NoDoc
         /\ CarriesMarker(store[k])
         /\ store[k].groups = << [name |-> PrometheusRuleGroupName, rules |-> created[k].rules] >>
         /\ isCMOManagedPrometheusRule(store[k])
         /\ findCMOManagedRuleGroup(store[k]).err = Nil
         /\ findCMOManagedRuleGroup(store[k]).index = 1

C5_Witness ==
  \E k \in Keys :
    /\ created[k].tracked
    /\ Len(created[k].rules) >= 2
    /\ created[k].rules[1] # created[k].rules[2]
    /\ resp.op = "Create" /\ resp.err = Nil

\* C6: GetAlertingRule answers an absent document with the document-not-found
\* error, a document without a matching rule with the rule-not-found error and a
\* store failure other than not-found with the unexpected-error error; the three
\* errors differ from one another.
C6_GetErrorsDistinguished ==
  (resp.op = "Get")
    => /\ (resp.calls[1].ret # "error" /\ BeforeDoc = NoDoc)
            => (resp.err = ErrDocNotFound(resp.id) /\ resp.rule = NoRule)
       /\ (resp.calls[1].ret # "error" /\ BeforeDoc # NoDoc
             /\ MatchIndexes(Flatten(BeforeDoc.groups), resp.id) = {})
            => (resp.err = ErrRuleNotFound(resp.id) /\ resp.rule = NoRule)
       /\ (resp.calls[1].ret = "error")
            => (resp.err = ErrUnexpectedGet(resp.id) /\ resp.rule = NoRule)
       /\ (resp.err = ErrDocNotFound(resp.id)) => (resp.calls[1].ret # "error" /\ BeforeDoc = NoDoc)
       /\ (resp.err = ErrRuleNotFound(resp.id)) => (resp.calls[1].ret # "error" /\ BeforeDoc # NoDoc)
       /\ (resp.err = ErrUnexpectedGet(resp.id)) => (resp.calls[1].ret = "error")

C6_Witness ==
  /\ resp.op = "Get"
  /\ BeforeDoc # NoDoc
  /\ TotalRules(BeforeDoc.groups) > 0
  /\ resp.err = ErrRuleNotFound(resp.id)

\* C7: GetAlertingRule returns a rule only if its alert name is the requested rule
\* name and its severity label the requested severity; on a document whose rules
\* match at most one of the two it fails with the rule-not-found error.
C7_GetNeedsNameAndSeverity ==
  (resp.op = "Get")
    => /\ (resp.rule # NoRule)
            => /\ resp.rule.alert = resp.id.ruleName
               /\ resp.rule.labels["severity"] = resp.id.severity
       /\ (/\ resp.calls[1].ret = "doc"
           /\ \A i \in 1..Len(Flatten(BeforeDoc.groups)) :
                \/ Flatten(BeforeDoc.groups)[i].alert # resp.id.ruleName
                \/ Flatten(BeforeDoc.groups)[i].labels["severity"] # resp.id.severity)
            => (resp.rule = NoRule /\ resp.err = ErrRuleNotFound(resp.id))

C7_Witness ==
  /\ resp.op = "Get"
  /\ resp.calls[1].ret = "doc"
  /\ \E i, j \in 1..Len(Flatten(BeforeDoc.groups)) :
       /\ Flatten(BeforeDoc.groups)[i].alert = resp.id.ruleName
       /\ Flatten(BeforeDoc.groups)[i].labels["severity"] # resp.id.severity
       /\ Flatten(BeforeDoc.groups)[j].alert # resp.id.ruleName
       /\ Flatten(BeforeDoc.groups)[j].labels["severity"] = resp.id.severity
  /\ resp.rule = NoRule
  /\ resp.err = ErrRuleNotFound(resp.id)

\* C8: GetAlertingRule searches every group of the document it is given, whatever
\* the group names and the ownership marker, and returns the first rule in
\* document order (groups in sequence, rules in sequence within a group) whose
\* alert name and severity label are those of the identity.
C8_GetFirstMatchInDocumentOrder ==
  (resp.op = "Get" /\ resp.calls[1].ret = "doc")
    => IF MatchIndexes(Flatten(BeforeDoc.groups), resp.id) = {}
       THEN resp.rule = NoRule
       ELSE /\ resp.err = Nil
            /\ resp.rule =
                 Flatten(BeforeDoc.groups)[MinOf(MatchIndexes(Flatten(BeforeDoc.groups), resp.id))]

C8_Witness ==
  /\ resp.op = "Get" /\ resp.calls[1].ret = "doc"
  /\ ~CarriesMarker(BeforeDoc)
  /\ Len(BeforeDoc.groups) = 2
  /\ BeforeDoc.groups[1].name # PrometheusRuleGroupName
  /\ Cardinality(MatchIndexes(Flatten(BeforeDoc.groups), resp.id)) = 2
  /\ Len(BeforeDoc.groups[1].rules) = 1
  /\ BeforeDoc.groups[1].rules[1] # BeforeDoc.groups[2].rules[1]
  /\ resp.rule = BeforeDoc.groups[1].rules[1]

\* C9: CreateAlertingRule on an existing controller-managed document without a
\* group of the reserved name fails with "CMO managed rule group not found",
\* returns no rule and issues no createOrUpdate; the store is left as it was.
C9_MissingOwnedGroupRejected ==
  (/\ resp.op = "Create" /\ resp.calls[1].ret = "doc"
   /\ CarriesMarker(BeforeDoc) /\ OwnedIndexes(BeforeDoc) = {})
    => /\ resp.err = ErrGroupNotFound
       /\ resp.rule = NoRule
       /\ CallsOf("createOrUpdate") = {}
       /\ store = resp.before

C9_Witness ==
  /\ resp.op = "Create" /\ resp.calls[1].ret = "doc"
  /\ CarriesMarker(BeforeDoc) /\ OwnedIndexes(BeforeDoc) = {}
  /\ Len(BeforeDoc.groups) = 1
  /\ resp.err = ErrGroupNotFound

\* C10 as stated: CreateAlertingRule on an existing controller-managed document
\* without a group of the reserved name, the store answering, synthesizes an empty
\* owned group, appends the rule, persists the document with that group and
\* returns the rule.
C10_SynthesizesOwnedGroup ==
  (/\ resp.op = "Create" /\ resp.calls[1].ret = "doc"
   /\ CarriesMarker(BeforeDoc) /\ OwnedIndexes(BeforeDoc) = {})
    => /\ resp.err = Nil
       /\ resp.rule = resp.payload
       /\ AfterDoc # NoDoc
       /\ FirstOwnedRules(AfterDoc) = <<resp.payload>>

\* C10 amended: CreateAlertingRule synthesizes an empty owned group, appends the
\* rule to it, persists it and returns the rule only when the document does not
\* exist; whenever it succeeds on an existing document that document already held
\* a group of the reserved name, and the persisted owned group is that group's
\* rules followed by the rule.
C10_SynthesizesOnlyWhenAbsent ==
  (resp.op = "Create" /\ resp.err = Nil)
    => /\ resp.rule = resp.payload
       /\ AfterDoc # NoDoc
       /\ (BeforeDoc = NoDoc) => (FirstOwnedRules(AfterDoc) = <<resp.payload>>)
       /\ (BeforeDoc # NoDoc)
            => /\ OwnedIndexes(BeforeDoc) # {}
               /\ FirstOwnedRules(AfterDoc) = Append(FirstOwnedRules(BeforeDoc), resp.payload)

C10_Witness ==
  /\ resp.op = "Create" /\ resp.err = Nil
  /\ BeforeDoc = NoDoc
  /\ resp.calls[1].ret = "notfound"
  /\ FirstOwnedRules(AfterDoc) = <<resp.payload>>

\* C11: when CreateAlertingRule succeeds on a managed document whose owned group
\* holds the rules R, the persisted owned group is R followed by the new rule; a
\* rule whose alert name and severity are already in R is appended, not rejected
\* (the call succeeds when the store answers and no other client writes meanwhile).
C11_AppendsAtEnd ==
  (resp.op = "Create" /\ BeforeDoc # NoDoc /\ CarriesMarker(BeforeDoc)
     /\ OwnedIndexes(BeforeDoc) # {})
    => /\ (resp.err = Nil)
            => FirstOwnedRules(AfterDoc) = FirstOwnedRules(BeforeDoc) \o <<resp.payload>>
       /\ (StoreAnswered /\ Undisturbed) => resp.err = Nil

C11_Witness ==
  /\ resp.op = "Create" /\ resp.err = Nil
  /\ BeforeDoc # NoDoc
  /\ Len(FirstOwnedRules(BeforeDoc)) = 1
  /\ FirstOwnedRules(BeforeDoc)[1] # resp.payload
  /\ FirstOwnedRules(BeforeDoc)[1].alert = resp.payload.alert
  /\ FirstOwnedRules(BeforeDoc)[1].labels = resp.payload.labels
  /\ Len(FirstOwnedRules(AfterDoc)) = 2

\* C12: when the store's get fails with an error other than not-found,
\* CreateAlertingRule returns "unexpected error getting PrometheusRule" naming the
\* document, returns no rule and issues no further store call.
C12_GetFailureReported ==
  (resp.op = "Create" /\ resp.calls[1].ret = "error")
    => /\ resp.err = <<"unexpected error getting PrometheusRule ",
                       resp.id.namespace, "/", resp.id.prometheusRule>>
       /\ resp.rule = NoRule
       /\ Len(resp.calls) = 1
       /\ CallsOf("createOrUpdate") = {}
       /\ CallsOf("delete") = {}
       /\ store = resp.before

C12_Witness ==
  /\ resp.op = "Create" /\ resp.calls[1].ret = "error"
  /\ BeforeDoc # NoDoc /\ CarriesMarker(BeforeDoc) /\ OwnedIndexes(BeforeDoc) # {}
  /\ resp.err = ErrUnexpectedGet(resp.id)

\* C13: when savePrometheusRule is given an empty rule list for a controller-managed
\* document, the store answering: a document without other groups is deleted; a
\* document that also has foreign groups is kept and persisted with only the owned
\* group removed.
C13_EmptyOwnedGroupPruned ==
  (resp.op = "Save" /\ resp.rules = <<>> /\ BeforeDoc # NoDoc /\ CarriesMarker(BeforeDoc)
     /\ StoreAnswered)
    => IF ForeignGroups(BeforeDoc) = <<>>
       THEN AfterDoc = NoDoc
       ELSE /\ AfterDoc # NoDoc
            /\ AfterDoc.groups = ForeignGroups(BeforeDoc)

\* C14: GetAlertingRule issues no createOrUpdate and no delete: whatever it
\* returns, the store holds after the call what it held before.
C14_GetLeavesStore ==
  (resp.op = "Get")
    => /\ store = resp.before
       /\ CallsOf("createOrUpdate") = {}
       /\ CallsOf("delete") = {}
       /\ Len(resp.calls) = 1
       /\ resp.calls[1].op = "get"

C14_Witness ==
  /\ resp.op = "Get"
  /\ BeforeDoc # NoDoc
  /\ BeforeDoc.groups # <<>>
  /\ TotalRules(BeforeDoc.groups) = 0
  /\ resp.err = ErrRuleNotFound(resp.id)
  /\ store = resp.before

\* C15: the ownership check answers true exactly when the document's labels hold
\* the reserved marker key with exactly the reserved value (a missing key or any
\* other value gives false), and it leaves the document as it was.
C15_OwnershipCheckExact ==
  (resp.op = "IsManaged")
    => /\ resp.result = (/\ "cmo.openshift.io/owner" \in DOMAIN BeforeDoc.labels
                         /\ BeforeDoc.labels["cmo.openshift.io/owner"] = "alert-management")
       /\ store = resp.before

C15_Witness ==
  /\ resp.op = "IsManaged"
  /\ DOMAIN BeforeDoc.labels = {"app"}
  /\ BeforeDoc.labels["app"] = "alert-management"
  /\ resp.result = FALSE

\* C16: ParseAlertingRuleId returns an error exactly when at least one of
\* namespace, document name, rule name and severity is empty or not set; otherwise
\* it returns the identity holding the four path values unchanged.
C16_ParseRequiresAllFour ==
  (resp.op = "Parse")
    => /\ (resp.err # Nil)
            <=> (\E n \in PathNames : n \notin DOMAIN resp.request \/ resp.request[n] = "")
       /\ (resp.err = Nil)
            => /\ resp.id.namespace = resp.request["namespace"]
               /\ resp.id.prometheusRule = resp.request["prometheusrule"]
               /\ resp.id.ruleName = resp.request["ruleName"]
               /\ resp.id.severity = resp.request["severity"]

C16_Witness ==
  /\ resp.op = "Parse"
  /\ DOMAIN resp.request = {"namespace", "prometheusrule", "ruleName"}
  /\ \A n \in DOMAIN resp.request : resp.request[n] # ""
  /\ resp.err = ErrMissingParameters

\* C17: GetAlertingRule and CreateAlertingRule called with an identity in which
\* namespace, document name, rule name or severity is empty fail, return no rule
\* and issue no store call at all.
C17_EmptyIdentityRejected ==
  (/\ resp.op \in {"Get", "Create"}
   /\ \/ resp.id.namespace = "" \/ resp.id.prometheusRule = ""
      \/ resp.id.ruleName = "" \/ resp.id.severity = "")
    => /\ resp.err # Nil
       /\ resp.rule = NoRule
       /\ resp.calls = <<>>

----------------------------------------------------------------------------
(* Poll: vocabulary of the properties *)

PollSucceeded == poll.pc = "done" /\ poll.result = Nil

PollTimedOut ==
  /\ poll.pc = "done"
  /\ poll.result # Nil
  /\ SubSeq(poll.result, 1, 1) = <<"context deadline exceeded">>

\* no invocation of the probe so far took longer than one interval
ShortProbes ==
  \A n \in DOMAIN poll.ends : poll.ends[n] - poll.starts[n] <= poll.interval

LaterOf(a, b) == IF a >= b THEN a ELSE b

\* C18 as stated: with a probe that first succeeds at its (k+1)-th invocation and
\* k intervals shorter than the timeout, Poll returns nil after exactly k+1
\* invocations, however long the invocations take.
C18_SucceedsWithinTimeout ==
  (/\ poll.pc = "done"
   /\ poll.succeedAt >= 1
   /\ (poll.succeedAt - 1) * poll.interval < poll.timeout)
    => /\ poll.result = Nil
       /\ Len(poll.starts) = poll.succeedAt

\* C18: as long as no invocation of the probe takes longer than one interval, the
\* probe is invoked at time 0 and then at every multiple of the interval; if it
\* first succeeds at its (k+1)-th invocation and k intervals are shorter than the
\* timeout, it is never invoked more than k+1 times and Poll returns nil after
\* exactly k+1 invocations.
C18_SucceedsWithinTimeoutShortProbes ==
  (poll.pc # "off" /\ ShortProbes)
    => /\ \A n \in DOMAIN poll.starts : poll.starts[n] = (n - 1) * poll.interval
       /\ (poll.succeedAt >= 1 /\ (poll.succeedAt - 1) * poll.interval < poll.timeout)
            => /\ Len(poll.starts) <= poll.succeedAt
               /\ (poll.pc = "done")
                    => (poll.result = Nil /\ Len(poll.starts) = poll.succeedAt)

C18_Witness ==
  /\ poll.pc = "done"
  /\ poll.interval = 1 /\ poll.timeout = 3 /\ poll.succeedAt = 3
  /\ poll.starts = <<0, 1, 2>>
  /\ poll.ends = <<1, 1, 2>>
  /\ poll.result = Nil

\* C19: when Poll returns because of the timeout, the error it returns is the
\* timeout error wrapping the error of the last invocation of the probe, not of
\* an earlier one.
C19_TimeoutWrapsLastProbeError ==
  (poll.pc = "done" /\ poll.result # Nil)
    => poll.result = <<"context deadline exceeded", ": ", "probe failed", Len(poll.starts)>>

C19_Witness ==
  /\ poll.pc = "done"
  /\ Len(poll.starts) = 3
  /\ poll.result = <<"context deadline exceeded", ": ", "probe failed", 3>>

\* C20 as stated: with a probe that always fails, Poll ends timed out no later
\* than one interval after the timeout and after at most floor(timeout/interval)+1
\* invocations.
C20_TimedOutWithinOneInterval ==
  (poll.pc = "done" /\ poll.succeedAt = 0)
    => /\ PollTimedOut
       /\ poll.now <= poll.timeout + poll.interval
       /\ Len(poll.starts) <= (poll.timeout \div poll.interval) + 1

\* C20: every Poll call whose probe invocations return ends, either succeeded or
\* timed out and never both; with a probe that always fails it ends timed out,
\* after at most floor(timeout/interval)+1 invocations, at the timeout or when
\* the invocation in progress at the timeout returns, whichever is later, which
\* is within one interval after the timeout if no invocation takes longer than
\* one interval.
C20_TerminatesSucceededOrTimedOut ==
  /\ (poll.pc # "off") ~> (poll.pc = "done")
  /\ []((poll.pc = "done")
          => /\ PollSucceeded # PollTimedOut
             /\ (poll.succeedAt = 0)
                  => /\ PollTimedOut
                     /\ Len(poll.starts) <= (poll.timeout \div poll.interval) + 1
                     /\ poll.now = LaterOf(poll.timeout, poll.ends[Len(poll.ends)])
                     /\ ShortProbes => poll.now <= poll.timeout + poll.interval)

C20_Witness ==
  /\ PollTimedOut
  /\ poll.succeedAt = 0
  /\ poll.interval = 1 /\ poll.timeout = 2
  /\ Len(poll.starts) = 3
  /\ poll.now = 3

----------------------------------------------------------------------------
(* Concurrent callers: vocabulary of the properties *)

Caller(c) == tasks.callers[c]

Returned(c) == Caller(c).pc = "done"

\* the document exists and does not carry the controller's marker
ForeignMarked(doc) == doc # NoDoc /\ ~CarriesMarker(doc)

Managed(doc) == doc # NoDoc /\ CarriesMarker(doc)

Holds(rules, rule) == \E i \in 1..Len(rules) : rules[i] = rule

\* C21: when two CreateAlertingRule calls with distinct rules run against the same
\* controller-managed document, no other writer interferes and both return
\* success, the owned group of the stored document holds both rules.
C21_ConcurrentCreatesKeepBoth ==
  \A a \in Callers : \A b \in Callers \ {a} :
    (/\ Returned(a) /\ Returned(b)
     /\ Caller(a).err = Nil /\ Caller(b).err = Nil
     /\ Caller(a).rule # Caller(b).rule
     /\ Managed(Caller(a).fetched) /\ Managed(Caller(b).fetched)
     /\ tasks.foreignWrites = 0)
      => /\ Holds(FirstOwnedRules(store[TheKey]), Caller(a).rule)
         /\ Holds(FirstOwnedRules(store[TheKey]), Caller(b).rule)

\* C22: a createOrUpdate of CreateAlertingRule that the store applies never
\* replaces a document that carries a foreign marker at that moment.
C22_NeverWritesOverForeignOwner ==
  \A c \in Callers :
    (/\ Returned(c)
     /\ Caller(c).err = Nil
     /\ Caller(c).calls[Len(Caller(c).calls)] = "createOrUpdate")
      => ~ForeignMarked(Caller(c).replaced)

\* C23: when the document is absent or controller-managed at the first fetch of
\* CreateAlertingRule and exists with a foreign marker at the re-fetch made by
\* savePrometheusRule, the call returns an error and its store calls are the two
\* gets only: no createOrUpdate, no delete.
C23_ForeignAtRefetchRejected ==
  \A c \in Callers :
    (/\ Caller(c).pc # "idle"
     /\ Len(Caller(c).calls) >= 2
     /\ ~ForeignMarked(Caller(c).fetched)
     /\ ForeignMarked(Caller(c).refetched))
      => /\ Returned(c)
         /\ Caller(c).err # Nil
         /\ Caller(c).calls = <<"get", "get">>
         /\ Caller(c).replaced = NoDoc

C23_Witness ==
  \E c \in Callers :
    /\ Returned(c)
    /\ Managed(Caller(c).fetched)
    /\ ForeignMarked(Caller(c).refetched)
    /\ Caller(c).calls = <<"get", "get">>
    /\ Caller(c).err = <<"unexpected error saving PrometheusRule ", "ns", "/", "pr1">>

\* C24: one CreateAlertingRule call issues at most one createOrUpdate and no
\* delete, exactly one createOrUpdate (which the store accepts) when it succeeds,
\* and no store call after one that failed: the failure is returned as an error.
C24_CreateWritesOnce ==
  (resp.op = "Create")
    => /\ Cardinality(CallsOf("createOrUpdate")) <= 1
       /\ CallsOf("delete") = {}
       /\ (resp.err = Nil)
            => /\ Cardinality(CallsOf("createOrUpdate")) = 1
               /\ resp.calls[Len(resp.calls)] .op = "createOrUpdate"
               /\ resp.calls[Len(resp.calls)].ret = "ok"
       /\ \A i \in 1..Len(resp.calls) :
            (resp.calls[i].ret = "error") => (i = Len(resp.calls) /\ resp.err # Nil)

C24_Witness ==
  /\ resp.op = "Create"
  /\ Len(resp.calls) = 3
  /\ resp.calls[3].op = "createOrUpdate"
  /\ resp.calls[3].ret = "error"
  /\ resp.err = <<"unexpected error saving PrometheusRule ", "ns", "/", "pr1">>
  /\ store = resp.before

----------------------------------------------------------------------------
(* The two saves side by side: vocabulary of the properties *)

\* absent, managed or foreign
DocState(doc) ==
  IF doc = NoDoc THEN "absent" ELSE IF CarriesMarker(doc) THEN "managed" ELSE "foreign"

\* the kind of outcome of a save, read from its store calls and its error
OutcomeKind(save) ==
  LET last == save.calls[Len(save.calls)]
  IN IF last.op = "delete" THEN "delete"
     ELSE IF last.op = "createOrUpdate"
          THEN IF CarriesMarker(last.arg) THEN "createOrUpdate, marked"
               ELSE "createOrUpdate, unmarked"
     ELSE IF save.err # Nil THEN "error, no mutation"
     ELSE "success, no store call"

\* the two saves have returned
BothSaved == tasks.ruleSave.pc = "done" /\ tasks.relabelSave.pc = "done"

\* the stores gave the two saves the same answers, call by call
SameAnswers ==
  /\ tasks.ruleSave.mode = tasks.relabelSave.mode
  /\ IF tasks.ruleSave.wok = "none" \/ tasks.relabelSave.wok = "none" THEN TRUE
     ELSE tasks.ruleSave.wok = tasks.relabelSave.wok

\* C25: for the same document state at the fetch (absent, managed, foreign), the
\* same kind of payload (empty, non-empty) and the same store answers,
\* saveAlertRelabelConfig and savePrometheusRule end in the same kind of outcome.
C25_RelabelSaveMirrorsRuleSave ==
  (/\ BothSaved
   /\ DocState(tasks.ruleSave.seen) = DocState(tasks.relabelSave.seen)
   /\ (Len(tasks.ruleSave.payload) = 0) = (Len(tasks.relabelSave.payload) = 0)
   /\ SameAnswers)
    => OutcomeKind(tasks.ruleSave) = OutcomeKind(tasks.relabelSave)

----------------------------------------------------------------------------
(* The GET handler: vocabulary of the properties *)

RequestComplete == \A n \in PathNames : resp.request[n] # ""

RequestedDoc ==
  Lookup(resp.before, resp.request["namespace"], resp.request["prometheusrule"])

RequestedId ==
  [ruleName |-> resp.request["ruleName"], severity |-> resp.request["severity"]]

GetFailed == \E i \in 1..Len(resp.calls) : resp.calls[i].ret = "error"

\* the controller was called and returned an error
ControllerFailed == resp.got.called /\ resp.got.err # Nil

\* C26: the GET handler answers a failure of GetAlertingRule on a complete request
\* with a 404-class status when the store answers and the document does not exist
\* or holds no rule of the requested identity, and with a 5xx-class status only
\* when the store call failed.
C26_HandlerStatusByErrorKind ==
  (resp.op = "GetHandler" /\ RequestComplete /\ ControllerFailed)
    => /\ (~GetFailed /\ RequestedDoc = NoDoc) => resp.status \in 400..499
       /\ (/\ ~GetFailed
           /\ RequestedDoc # NoDoc
           /\ MatchIndexes(Flatten(RequestedDoc.groups), RequestedId) = {})
            => resp.status \in 400..499
       /\ (resp.status \in 500..599) => GetFailed

\* C27: Poll returns nil exactly when the last invocation of the probe returned
\* no error; the probe is invoked at least once, also with a zero timeout, and
\* every error Poll returns carries the error of a probe invocation.
C27_NilIffLastProbeSucceeded ==
  (poll.pc = "done")
    => /\ Len(poll.starts) >= 1
       /\ (poll.result = Nil)
            <=> (poll.succeedAt # 0 /\ Len(poll.starts) >= poll.succeedAt)
       /\ (poll.result # Nil)
            => (Len(poll.result) = 4 /\ poll.result[3] = "probe failed")

C27_Witness ==
  /\ poll.pc = "done"
  /\ poll.timeout = 0
  /\ poll.starts = <<0>>
  /\ poll.result = <<"context deadline exceeded", ": ", "probe failed", 1>>

\* C28: savePrometheusRule with an empty rule list returns success without any
\* createOrUpdate or delete when the store says the document does not exist, and
\* returns an error without any delete when the document carries a foreign marker.
C28_EmptySaveOnAbsentOrForeign ==
  (resp.op = "Save" /\ Len(resp.rules) = 0)
    => /\ (BeforeDoc = NoDoc /\ resp.calls[1].ret # "error")
            => /\ resp.err = Nil
               /\ CallsOf("createOrUpdate") = {}
               /\ CallsOf("delete") = {}
       /\ (BeforeDoc # NoDoc /\ ~CarriesMarker(BeforeDoc))
            => /\ resp.err # Nil
               /\ CallsOf("delete") = {}
               /\ CallsOf("createOrUpdate") = {}
               /\ store = resp.before

C28_Witness ==
  /\ resp.op = "Save"
  /\ resp.rules = <<>>
  /\ BeforeDoc = NoDoc
  /\ resp.err = Nil
  /\ resp.calls = <<[op |-> "get", ret |-> "notfound"]>>

====
